---- MODULE Spec2Model ----
(***************************************************************************)
(* A model of the proof-coordination service of optimism-zkp:             *)
(*   - the caching, oracle-backed L2 chain provider                        *)
(*     (utils/client/src/l2_chain_provider.rs),                            *)
(*   - the host orchestrator and the aggregation-input assembler           *)
(*     (utils/host/src/lib.rs),                                            *)
(*   - the two request gateways (proposer/succinct/bin/server.rs and       *)
(*     zkvm-host/bin/server.rs).                                           *)
(* Spec is the provider of one witness-generation run; SpecGateway is the  *)
(* gateway with its span and aggregation handlers and the host run.        *)
(***************************************************************************)
EXTENDS Integers, Sequences, FiniteSets, TLC

\* ------------------------------------------------------------------ bounds
\* Largest L2 block number of the model.
MaxNum == 2
\* Number of update_cache calls in one run.
MaxUpd == 2
\* Number of span-proof requests the gateway handles concurrently.
MaxReq == 2
\* Largest number of sub-proofs of an aggregation request.
MaxSub == 2

Nums == 0..MaxNum
\* Hashes of the header preimages the oracle may hold; 0 is the hash of nothing.
NumHashes == MaxNum
Hashes == 1..NumHashes
\* Hashes of the two headers the executor may build for a block number.
ExecHashes == {NumHashes + 1, NumHashes + 2}
\* The boot's prestate output root (the key of the output preimage).
OutputRoot == NumHashes + 3

\* Option values: the empty sequence is None, a one-element sequence is Some.
None == <<>>
Some(v) == <<v>>

VARIABLES
  \* the preimage oracle of the run: header preimages by hash
  oracleHdr,
  \* the preimage stored under the prestate output root
  oraclePre,
  \* the four caches of the provider, by block number
  header_by_number, block_by_number, system_config_by_number, l2_block_info_by_number,
  \* the last provider operation and its outcome
  ret,
  \* number of update_cache calls so far
  nupd,
  \* history: every value update_cache inserted under a number
  inserted,
  \* history: the values of the last successful update_cache of a number, if no
  \* update_cache for that number was called since
  promoted,
  \* history: the values of the first successful update_cache of a number
  firstOk,
  \* the gateway: the span-proof request handlers, one record per request
  span,
  \* the gateway: the aggregation request being handled
  agg,
  \* the gateway: the status request handlers, one record per request
  poll,
  \* the holder of each cache mutex (0 when it is free)
  mutex,
  \* the clones of the provider sharing the caches: the call each is in and
  \* its position in it
  task,
  \* the calls of OPSuccinctHost::run, one record per call
  run,
  \* the channels created so far, each with its two directions
  pipes

caches == <<header_by_number, block_by_number, system_config_by_number, l2_block_info_by_number>>
oracle == <<oracleHdr, oraclePre>>
history == <<inserted, promoted, firstOk>>
conc == <<mutex, task, run, pipes>>
pvars == <<oracle, caches, ret, nupd, history, conc>>
gvars == <<span, agg, poll, conc>>
vars == <<pvars, gvars>>


\* ------------------------------------------------------- oracle contents
\* A header preimage: absent from the oracle, present but not RLP-decodable, or
\* the RLP of a header with a block number.
HdrPreimages ==
  {[kind |-> "missing", number |-> 0], [kind |-> "bad", number |-> 0]}
    \cup {[kind |-> "hdr", number |-> k] : k \in Nums}

\* The output preimage is a sequence of 32-byte words:
\* version, state root, storage root, block hash. Bytes 96..128 are word 4.
OutputPreimages ==
  {[present |-> FALSE, words |-> <<>>],
   [present |-> TRUE, words |-> <<0, 0, NumHashes>>]}
    \cup {[present |-> TRUE, words |-> <<0, 0, NumHashes, h>>] : h \in Hashes}

\* The parent hash of the header with hash h. Hashes are acyclic (a header
\* holds the hash of a header that existed before it): the parent of h is h - 1
\* and the parent of 1 has no preimage.
ParentOf(h) == h - 1
\* transactions_root of the header with hash h.
TxRootOf(h) == h

\* Header::decode of the preimage stored under hash h.
DecodeHeader(h) ==
  [hash |-> h, number |-> oracleHdr[h].number, parent_hash |-> ParentOf(h),
   transactions_root |-> TxRootOf(h), timestamp |-> oracleHdr[h].number]

\* The EIP-2718 encoding of a transaction.
Rlp(tx) == <<"rlp", tx>>

\* The leaves of the transactions trie with a root, in trie order, or None when
\* the oracle does not hold the trie. Each leaf is the encoding of an L1-info
\* deposit ("dep"), of a user transaction ("user"), or undecodable ("bad").
TrieLeaves(root) ==
  IF root % 3 = 1 THEN Some(<<Rlp("dep"), Rlp("user")>>)
  ELSE IF root % 3 = 2 THEN Some(<<Rlp("dep"), Rlp("bad")>>)
  ELSE None

\* ------------------------------------------------------------- outcomes
\* The outcome of an operation: a value, an error value, or a panic, with the
\* hints written and the preimage keys read, in order.
\* io is the traffic of the operation on the two channels of the oracle, in
\* order: a hint written, or a preimage key read.
Write(hint) == <<"write", hint>>
Get(key) == <<"get", key>>
IsWrite(e) == e[1] = "write"
IsGet(e) == e[1] = "get"
Payloads(events) == [i \in 1..Len(events) |-> events[i][2]]
HintsOf(io) == Payloads(SelectSeq(io, IsWrite))
GetsOf(io) == Payloads(SelectSeq(io, IsGet))
Ok(v, io) ==
  [res |-> "ok", err |-> "", val |-> Some(v), hints |-> HintsOf(io), gets |-> GetsOf(io),
   io |-> io]
Err(e, io) ==
  [res |-> "err", err |-> e, val |-> None, hints |-> HintsOf(io), gets |-> GetsOf(io),
   io |-> io]
Panic(io) ==
  [res |-> "panic", err |-> "range end index out of range", val |-> None,
   hints |-> HintsOf(io), gets |-> GetsOf(io), io |-> io]

Hint(tag, arg) == <<tag, arg>>
\* A keccak preimage key; the kind tells the 32-byte values of the model apart.
Key(kind, id) == <<kind, id>>
\* oracle.write(hint).await? and then oracle.get(key).await?
GetThenWrite(hint, key) == <<Get(key), Write(hint)>>
WriteThenGet(hint, key) == <<Write(hint), Get(key)>>

\* --------------------------------------------------------------- caches
EmptyCache == [n \in Nums |-> None]
\* HashMap::get
CacheGetAlwaysMisses(cache, n) == None
CacheGet(cache, n) == cache[n]
\* HashMap::insert
InsertClobbering(cache, n, v) == [k \in Nums |-> Some(v)]
InsertEvicting(cache, n, v) == [k \in Nums |-> IF k = n THEN Some(v) ELSE None]
CacheInsert(cache, n, v) == [cache EXCEPT ![n] = Some(v)]
Keys(cache) == {n \in Nums : cache[n] # None}

\* ------------------------------------------------- hash-keyed operations
\* oracle.get of a keccak key: the preimage, or an oracle error.
OraclePresent(key) == key \in Hashes /\ oracleHdr[key].kind # "missing"
\* The oracle holds the bytecode of the odd code hashes.
CodePresent(hash) == hash % 2 = 1

\* TrieProvider::header_by_hash
HeaderByHash(hash) ==
  LET io == WriteThenGet(Hint("l2-block-header", hash), Key("header", hash))
  IN  IF ~OraclePresent(hash) THEN Err("oracle", io)
      ELSE IF oracleHdr[hash].kind = "bad" THEN Err("Failed to RLP decode Header", io)
      ELSE Ok(DecodeHeader(hash), io)

\* TrieProvider::trie_node_preimage
TrieNodePreimage(key) ==
  IF TrieLeaves(key) # None THEN Ok([bytes |-> TrieLeaves(key)[1]], <<Get(Key("trie-node", key))>>)
  ELSE Err("oracle", <<Get(Key("trie-node", key))>>)

\* TrieProvider::bytecode_by_hash
BytecodeByHash(hash) ==
  LET io == WriteThenGet(Hint("l2-code", hash), Key("code", hash))
  IN  IF CodePresent(hash) THEN Ok([bytes |-> <<"code", hash>>], io)
      ELSE Err("oracle", io)

\* --------------------------------------------------------- header walk
\* output_preimage[96..128]: the panic of a slice past the end.
SliceInRange(words) == Len(words) >= 4
BlockHashFromStorageRoot(words) == words[3]
BlockHashOf(words) == words[4]

\* "if block_number > header.number": the range check.
PastHeadOffByOne(block_number, header) == block_number > header.number + 1
PastHead(block_number, header) == block_number > header.number

\* "while header.number > block_number": the parent walk.
RECURSIVE WalkPastTarget(_, _, _)
WalkPastTarget(header, block_number, io) ==
  IF header.number >= block_number
  THEN LET r == HeaderByHash(header.parent_hash)
       IN  IF r.res # "ok" THEN Err(r.err, io \o r.io)
           ELSE WalkPastTarget(r.val[1], block_number, io \o r.io)
  ELSE Ok(header, io)
RECURSIVE Walk(_, _, _)
Walk(header, block_number, io) ==
  IF header.number > block_number
  THEN LET r == HeaderByHash(header.parent_hash)
       IN  IF r.res # "ok" THEN Err(r.err, io \o r.io)
           ELSE Walk(r.val[1], block_number, io \o r.io)
  ELSE Ok(header, io)

\* MultiblockOracleL2ChainProvider::header_by_number
\* header_by_number once the header cache has missed.
HeaderByNumberMiss(block_number) ==
  LET io == WriteThenGet(Hint("starting-l2-output", OutputRoot), Key("output", OutputRoot))
  IN  IF ~oraclePre.present THEN Err("oracle", io)
      ELSE IF ~SliceInRange(oraclePre.words) THEN Panic(io)
      ELSE
        LET r == HeaderByHash(BlockHashOf(oraclePre.words))
            io2 == io \o r.io
        IN  IF r.res # "ok" THEN Err(r.err, io2)
            ELSE IF PastHead(block_number, r.val[1])
                 THEN Err("Block number past L2 head.", io2)
            ELSE Walk(r.val[1], block_number, io2)

HeaderByNumber(block_number) ==
  IF CacheGet(header_by_number, block_number) # None
  THEN Ok(CacheGet(header_by_number, block_number)[1], <<>>)
  ELSE HeaderByNumberMiss(block_number)

\* ------------------------------------------------------ block assembly
\* The timestamp from which Canyon is active in the boot's rollup config.
CanyonTime == 1
\* RollupConfig::is_canyon_active
IsCanyonActiveAfter(timestamp) == timestamp > CanyonTime
IsCanyonActive(timestamp) == timestamp >= CanyonTime

\* OpTxEnvelope::decode_2718
DecodableTx(leaf) == leaf[2] \in {"dep", "user"}
DecodeTx(leaf) == leaf[2]

\* L2ChainProvider::block_by_number
BlockByNumber(number) ==
  IF CacheGet(block_by_number, number) # None
  THEN Ok(CacheGet(block_by_number, number)[1], <<>>)
  ELSE
    LET r == HeaderByNumber(number)
    IN  IF r.res # "ok" THEN [r EXCEPT !.val = None]
        ELSE
          LET header == r.val[1]
              walk == TrieNodePreimage(header.transactions_root)
              io == r.io \o <<Write(Hint("l2-transactions", header.hash))>> \o walk.io
              leaves == TrieLeaves(header.transactions_root)
          IN  IF leaves = None THEN Err("oracle", io)
              ELSE IF \E i \in 1..Len(leaves[1]) : ~DecodableTx(leaves[1][i])
                   THEN Err("Failed to decode TxEnvelope RLP", io)
              ELSE Ok([header |-> header,
                       transactions |-> [i \in 1..Len(leaves[1]) |-> DecodeTx(leaves[1][i])],
                       ommers |-> <<>>,
                       withdrawals |-> IF IsCanyonActive(header.timestamp)
                                       THEN Some(<<>>) ELSE None,
                       requests |-> None], io)

\* op_alloy_protocol::to_system_config: the system config is read from the
\* L1-info deposit that opens the block.
ToSystemConfig(block) ==
  IF Len(block.transactions) = 0
  THEN [ok |-> FALSE, err |-> "EmptyTransactions", val |-> None]
  ELSE IF block.transactions[1] # "dep"
  THEN [ok |-> FALSE, err |-> "InvalidTxType", val |-> None]
  ELSE [ok |-> TRUE, err |-> "",
        val |-> Some([system_config_of |-> block.header.hash])]

\* L2BlockInfo::from_block_and_genesis: the L1 origin and the sequence number
\* are read from the L1-info deposit that opens the block.
FromBlockAndGenesis(block) ==
  IF Len(block.transactions) = 0
  THEN [ok |-> FALSE, err |-> "MissingL1InfoDeposit", val |-> None]
  ELSE IF block.transactions[1] # "dep"
  THEN [ok |-> FALSE, err |-> "FirstTxNonDeposit", val |-> None]
  ELSE [ok |-> TRUE, err |-> "",
        val |-> Some([block_info |-> [hash |-> block.header.hash,
                                      number |-> block.header.number],
                      l1_origin_of |-> block.header.hash])]

\* L2ChainProvider::l2_block_info_by_number
L2BlockInfoByNumber(number) ==
  IF CacheGet(l2_block_info_by_number, number) # None
  THEN Ok(CacheGet(l2_block_info_by_number, number)[1], <<>>)
  ELSE
    LET r == BlockByNumber(number)
    IN  IF r.res # "ok" THEN [r EXCEPT !.val = None]
        ELSE LET d == FromBlockAndGenesis(r.val[1])
             IN  IF d.ok THEN Ok(d.val[1], r.io)
                 ELSE Err(d.err, r.io)

\* L2ChainProvider::system_config_by_number
SystemConfigByNumber(number) ==
  IF CacheGet(system_config_by_number, number) # None
  THEN Ok(CacheGet(system_config_by_number, number)[1], <<>>)
  ELSE
    LET r == BlockByNumber(number)
    IN  IF r.res # "ok" THEN [r EXCEPT !.val = None]
        ELSE LET d == ToSystemConfig(r.val[1])
             IN  IF d.ok THEN Ok(d.val[1], r.io)
                 ELSE Err(d.err, r.io)

\* ------------------------------------------------------------ the run
\* The headers and blocks the executor hands to update_cache: for a block
\* number, one of two headers, and a body that opens with the L1-info deposit
\* or holds no transaction.
ExecTxs == {<<>>, <<"dep">>}
ExecHeader(h, n) ==
  [hash |-> h, number |-> n, parent_hash |-> 0, transactions_root |-> 0, timestamp |-> n]
ExecBlock(header, txs) ==
  [header |-> header, transactions |-> txs, ommers |-> <<>>,
   withdrawals |-> Some(<<>>), requests |-> None]

\* The block hash the output preimage commits to (0 when it holds none).
SafeHeadHash == IF Len(oraclePre.words) >= 4 THEN oraclePre.words[4] ELSE 0

\* The preimages of an honest host: the output preimage is whole and names the
\* newest header, and the headers are numbered 0, 1, ... along the parent links.
HonestOracle ==
  /\ oraclePre = [present |-> TRUE, words |-> <<0, 0, NumHashes, NumHashes>>]
  /\ oracleHdr = [h \in Hashes |-> [kind |-> "hdr", number |-> h - 1]]

\* Any oracle content. The walk only reaches the safe head and the headers
\* below it; the others hold a header of the largest number.
AnyOracle ==
  /\ oracleHdr \in [Hashes -> HdrPreimages]
  /\ oraclePre \in OutputPreimages
  /\ \A h \in Hashes :
       (h > SafeHeadHash \/ SafeHeadHash = 0)
         => oracleHdr[h] = [kind |-> "hdr", number |-> MaxNum]

\* MultiblockOracleL2ChainProvider::new
InitProvider ==
  /\ header_by_number = EmptyCache
  /\ block_by_number = EmptyCache
  /\ system_config_by_number = EmptyCache
  /\ l2_block_info_by_number = EmptyCache
  /\ ret = [op |-> "new", arg |-> 0, res |-> "ok", err |-> "", val |-> None,
            hints |-> <<>>, gets |-> <<>>, io |-> <<>>]
  /\ nupd = 0
  /\ inserted = [n \in Nums |-> {}]
  /\ promoted = [n \in Nums |-> None]
  /\ firstOk = [n \in Nums |-> None]

\* A panic unwinds the replay client: the run makes no further call.
Running == ret.res # "panic"

Finish(op, arg, out) ==
  /\ ret' = [op |-> op, arg |-> arg, res |-> out.res, err |-> out.err, val |-> out.val,
             hints |-> out.hints, gets |-> out.gets, io |-> out.io]
  /\ UNCHANGED gvars

\* MultiblockOracleL2ChainProvider::update_cache
UpdateCache ==
  \E n \in Nums, h \in ExecHashes, txs \in ExecTxs :
    LET header == ExecHeader(h, n)
        block == ExecBlock(header, txs)
        sc == ToSystemConfig(block)
        bi == FromBlockAndGenesis(block)
        done == sc.ok /\ bi.ok
        stored == [header |-> header, block |-> block,
                   system_config |-> sc.val, l2_block_info |-> bi.val]
    IN  /\ Running
        /\ nupd < MaxUpd
        /\ nupd' = nupd + 1
        /\ header_by_number' = CacheInsert(header_by_number, header.number, header)
        /\ block_by_number' = CacheInsert(block_by_number, header.number, block)
        /\ system_config_by_number' =
             IF sc.ok THEN CacheInsert(system_config_by_number, header.number, sc.val[1])
             ELSE system_config_by_number
        /\ l2_block_info_by_number' =
             IF done THEN CacheInsert(l2_block_info_by_number, header.number, bi.val[1])
             ELSE l2_block_info_by_number
        /\ Finish("update_cache", header.number,
                  IF ~sc.ok THEN Err(sc.err, <<>>)
                  ELSE IF ~bi.ok THEN Err(bi.err, <<>>)
                  ELSE Ok(bi.val[1], <<>>))
        /\ inserted' = [inserted EXCEPT ![header.number] =
             @ \cup {header, block}
               \cup (IF sc.ok THEN {sc.val[1]} ELSE {})
               \cup (IF done THEN {bi.val[1]} ELSE {})]
        /\ promoted' = [promoted EXCEPT ![header.number] =
             IF done THEN Some(stored) ELSE None]
        /\ firstOk' = [firstOk EXCEPT ![header.number] =
             IF done /\ @ = None THEN Some(stored) ELSE @]
        /\ UNCHANGED oracle

\* The four number-keyed reads.
HeaderByNumberOpMemoizing ==
  \E n \in Nums :
    LET out == HeaderByNumber(n)
    IN  /\ Running
        /\ Finish("header_by_number", n, out)
        /\ header_by_number' =
             IF out.res = "ok" THEN CacheInsert(header_by_number, n, out.val[1])
             ELSE header_by_number
        /\ UNCHANGED <<oracle, block_by_number, system_config_by_number,
                       l2_block_info_by_number, nupd, history>>
HeaderByNumberOp ==
  \E n \in Nums :
    /\ Running
    /\ Finish("header_by_number", n, HeaderByNumber(n))
    /\ UNCHANGED <<oracle, caches, nupd, history>>

BlockByNumberOpMemoizing ==
  \E n \in Nums :
    LET out == BlockByNumber(n)
    IN  /\ Running
        /\ Finish("block_by_number", n, out)
        /\ block_by_number' =
             IF out.res = "ok" THEN CacheInsert(block_by_number, n, out.val[1])
             ELSE block_by_number
        /\ UNCHANGED <<oracle, header_by_number, system_config_by_number,
                       l2_block_info_by_number, nupd, history>>
BlockByNumberOp ==
  \E n \in Nums :
    /\ Running
    /\ Finish("block_by_number", n, BlockByNumber(n))
    /\ UNCHANGED <<oracle, caches, nupd, history>>

L2BlockInfoByNumberOp ==
  \E n \in Nums :
    /\ Running
    /\ Finish("l2_block_info_by_number", n, L2BlockInfoByNumber(n))
    /\ UNCHANGED <<oracle, caches, nupd, history>>

SystemConfigByNumberOp ==
  \E n \in Nums :
    /\ Running
    /\ Finish("system_config_by_number", n, SystemConfigByNumber(n))
    /\ UNCHANGED <<oracle, caches, nupd, history>>

\* The three hash-keyed reads.
HeaderByHashOp ==
  \E h \in Hashes \cup {0} :
    /\ Running
    /\ Finish("header_by_hash", h, HeaderByHash(h))
    /\ UNCHANGED <<oracle, caches, nupd, history>>

TrieNodePreimageOp ==
  \E k \in Hashes :
    /\ Running
    /\ Finish("trie_node_preimage", k, TrieNodePreimage(k))
    /\ UNCHANGED <<oracle, caches, nupd, history>>

BytecodeByHashOp ==
  \E h \in Hashes :
    /\ Running
    /\ Finish("bytecode_by_hash", h, BytecodeByHash(h))
    /\ UNCHANGED <<oracle, caches, nupd, history>>

\* The three hint operations: one hint written, nothing read.
HintTrieNodeOp ==
  \E h \in Hashes :
    /\ Running
    /\ Finish("hint_trie_node", h, Ok([unit |-> 0], <<Write(Hint("l2-state-node", h))>>))
    /\ UNCHANGED <<oracle, caches, nupd, history>>

HintAccountProofOp ==
  \E n \in Nums :
    /\ Running
    /\ Finish("hint_account_proof", n,
              Ok([unit |-> 0], <<Write(Hint("l2-account-proof", <<n, "address">>))>>))
    /\ UNCHANGED <<oracle, caches, nupd, history>>

HintStorageProofOp ==
  \E n \in Nums :
    /\ Running
    /\ Finish("hint_storage_proof", n,
              Ok([unit |-> 0], <<Write(Hint("l2-account-storage-proof", <<n, "address", "slot">>))>>))
    /\ UNCHANGED <<oracle, caches, nupd, history>>

Next ==
  \/ UpdateCache
  \/ HeaderByNumberOp
  \/ BlockByNumberOp
  \/ L2BlockInfoByNumberOp
  \/ SystemConfigByNumberOp
  \/ HeaderByHashOp
  \/ TrieNodePreimageOp
  \/ BytecodeByHashOp
  \/ HintTrieNodeOp
  \/ HintAccountProofOp
  \/ HintStorageProofOp

\* =============================================================== gateway
Reqs == 1..MaxReq

\* A span-proof request handler. variant: the gateway with the in-process host
\* (proposer/succinct) or the one that spawns native_host_runner (zkvm-host).
\* witness: how the witness-generation run of the request ended.
IdleSpan ==
  [variant |-> "none", pc |-> "idle", server |-> "none", client |-> "none",
   runner |-> "none", witness |-> "none", resp |-> "none", submitted |-> FALSE,
   produced |-> None, returned |-> None]

\* The in-memory oracles a replay client may produce.
InMemoryOracles == {"oracle_a", "oracle_b"}
\* server_task.abort()
LeaveServerTask(server) == server
AbortServerTask(server) == "aborted"

Respond(rec, code) == [rec EXCEPT !.pc = "responded", !.resp = code]

\* POST /request_span_proof arrives at one of the two gateways.
SpanReceive(r) ==
  \E v \in {"inproc", "extproc"} :
    /\ span[r].pc = "idle"
    /\ span' = [span EXCEPT ![r] = [IdleSpan EXCEPT !.variant = v, !.pc = "prepare"]]
    /\ UNCHANGED <<pvars, agg, poll>>

\* get_host_cli_args and create_dir_all: an error is a 500. The spawning
\* gateway also reads the cargo metadata and panics when that fails.
SpanPrepare(r) ==
  /\ span[r].pc = "prepare"
  /\ \/ span' = [span EXCEPT ![r].pc = "witness"]
     \/ span' = [span EXCEPT ![r] = Respond(@, "500")]
     \/ /\ span[r].variant = "extproc"
        /\ span' = [span EXCEPT ![r] = Respond(@, "crashed")]
  /\ UNCHANGED <<pvars, agg, poll>>

\* OPSuccinctHost::run up to the await of the replay client: the two channels
\* are created and the server task is started; either may fail, and then run
\* returns the error.
HostStartServer(r) ==
  /\ span[r].variant = "inproc"
  /\ span[r].pc = "witness"
  /\ \/ span' = [span EXCEPT ![r].server = "running", ![r].client = "running",
                             ![r].pc = "client"]
     \/ span' = [span EXCEPT ![r].witness = "error", ![r].pc = "after_run"]
  /\ UNCHANGED <<pvars, agg, poll>>

\* OPSuccinctHost::run: the replay client completes, the server task is
\* aborted and run returns the oracle.
ClientCompletes(r) ==
  \E in_memory_oracle \in InMemoryOracles :
    /\ span[r].variant = "inproc"
    /\ span[r].pc = "client"
    /\ span' = [span EXCEPT ![r].client = "done", ![r].server = AbortServerTask(@),
                             ![r].produced = Some(in_memory_oracle),
                             ![r].returned = Some(in_memory_oracle),
                             ![r].witness = "ok", ![r].pc = "after_run"]
  /\ UNCHANGED <<pvars, agg, poll>>

\* OPSuccinctHost::run: the replay client returns an error, which "?" returns
\* to the caller at once.
ClientFails(r) ==
  /\ span[r].variant = "inproc"
  /\ span[r].pc = "client"
  /\ span' = [span EXCEPT ![r].client = "failed", ![r].witness = "error",
                           ![r].pc = "after_run"]
  /\ UNCHANGED <<pvars, agg, poll>>

\* run_native_host: the deadline expires while run is suspended. The future of
\* run is dropped, and with it the replay client and the handle of the server
\* task; a dropped JoinHandle detaches its task.
HostDeadlineExpires(r) ==
  /\ span[r].variant = "inproc"
  /\ span[r].pc \in {"witness", "client"}
  /\ span' = [span EXCEPT ![r].client = IF @ = "running" THEN "dropped" ELSE @,
                           ![r].witness = "timeout", ![r].pc = "after_run"]
  /\ UNCHANGED <<pvars, agg, poll>>

\* The spawning gateway: Command::spawn of native_host_runner.
SpawnRunner(r) ==
  /\ span[r].variant = "extproc"
  /\ span[r].pc = "witness"
  /\ \/ span' = [span EXCEPT ![r].runner = "running", ![r].pc = "wait"]
     \/ span' = [span EXCEPT ![r].witness = "spawn_error", ![r].pc = "after_run"]
  /\ UNCHANGED <<pvars, agg, poll>>

\* native_host_runner terminates, successfully or not. A handler that still
\* waits is handed the exit status.
RunnerExits(r) ==
  \E status \in {"exit_success", "exit_failure"} :
    /\ span[r].runner = "running"
    /\ span' = [span EXCEPT ![r].runner = status,
                             ![r].witness = IF span[r].pc = "wait" THEN status ELSE @,
                             ![r].pc = IF @ = "wait" THEN "after_run" ELSE @]
    /\ UNCHANGED <<pvars, agg, poll>>

\* Child::wait fails with an I/O error.
RunnerWaitFails(r) ==
  /\ span[r].pc = "wait"
  /\ span' = [span EXCEPT ![r].witness = "wait_error", ![r].pc = "after_run"]
  /\ UNCHANGED <<pvars, agg, poll>>

\* tokio::time::timeout around Child::wait expires. The child is dropped, not
\* killed: the process runs on.
RunnerDeadlineExpires(r) ==
  /\ span[r].pc = "wait"
  /\ span' = [span EXCEPT ![r].witness = "timeout", ![r].pc = "after_run"]
  /\ UNCHANGED <<pvars, agg, poll>>

\* What the handler does with the outcome of the witness generation:
\* "run_native_host(..).await?" in the one gateway, and in the other
\* "match result { Ok(status) => status?, Err(_) => return Err(..) }", where
\* status is the io::Result of wait and the exit status itself is not looked at.
WitnessAccepted(variant, witness) ==
  IF variant = "inproc" THEN witness = "ok"
  ELSE witness \in {"exit_success", "exit_failure"}

SpanAfterRun(r) ==
  /\ span[r].pc = "after_run"
  /\ span' = [span EXCEPT ![r] =
       IF WitnessAccepted(@.variant, @.witness) THEN [@ EXCEPT !.pc = "stdin"]
       ELSE Respond(@, "500")]
  /\ UNCHANGED <<pvars, agg, poll>>

\* get_proof_stdin, then NetworkProver::request_proof in compressed mode.
SpanSubmit(r) ==
  /\ span[r].pc = "stdin"
  /\ \/ span' = [span EXCEPT ![r] = Respond(@, "500")]
     \/ \E code \in {"200", "500"} :
          span' = [span EXCEPT ![r] = Respond([@ EXCEPT !.submitted = TRUE], code)]
  /\ UNCHANGED <<pvars, agg, poll>>

NextGateway ==
  \E r \in Reqs :
    \/ SpanReceive(r)
    \/ SpanPrepare(r)
    \/ HostStartServer(r)
    \/ ClientCompletes(r)
    \/ ClientFails(r)
    \/ HostDeadlineExpires(r)
    \/ SpawnRunner(r)
    \/ RunnerExits(r)
    \/ RunnerWaitFails(r)
    \/ RunnerDeadlineExpires(r)
    \/ SpanAfterRun(r)
    \/ SpanSubmit(r)

\* ----------------------------------------------------------- aggregation
\* Hashes of L1 blocks.
L1Hashes == 1..MaxSub

\* Sequences over a set, of a length from lo to hi.
SeqsOf(S, lo, hi) == UNION {[1..k -> S] : k \in lo..hi}

\* A sub-proof of the request body: bytes that deserialize to a compressed or
\* a PLONK proof with the boot info in its public values, or that do not
\* deserialize.
\* The boot info names the agreed prestate output and the claimed poststate
\* output of its span; a span ends at the output after the one it starts from.
PreRoots == {0, 1}
PostRootOf(pre) == pre + 1
SubProofs ==
  {[variant |-> v, l1_head |-> h, l2PreRoot |-> p, l2PostRoot |-> PostRootOf(p)] :
     v \in {"compressed", "plonk"}, h \in L1Hashes, p \in PreRoots}
    \cup {[variant |-> "garbled", l1_head |-> 1, l2PreRoot |-> 0, l2PostRoot |-> 0]}

\* The head string of the request body.
HeadStrings ==
  {[kind |-> "ok", hash |-> h] : h \in L1Hashes}
    \cup {[kind |-> k, hash |-> 1] : k \in {"noprefix", "badhex", "wronglen"}}

\* L1 headers: the parent hash is that of the block before, or of another block.
L1Headers ==
  UNION {{[hash |-> h, parent_hash |-> q] : q \in {h - 1, 0}} : h \in L1Hashes}

IdleAgg ==
  [pc |-> "idle", subproofs |-> <<>>, head |-> [kind |-> "ok", hash |-> 1],
   headers |-> <<>>, stdin |-> <<>>, assembled |-> "none", resp |-> "none",
   submitted |-> FALSE]

\* The range program's verifying key and its digest.
RangeVkey == "range-vk"
VkeyDigest(vk) == <<"hash_u32", vk>>
\* serde_cbor::to_vec
Cbor(headers) == <<"cbor", headers>>

\* get_agg_proof_stdin, the loop over the proofs: a proof that is not
\* compressed panics; a compressed one is written with the verifying key.
RECURSIVE WriteProofs(_, _, _, _)
WriteProofs(proofs, i, vk, stdin) ==
  IF i > Len(proofs) THEN [res |-> "ok", stdin |-> stdin]
  ELSE IF proofs[i] # "compressed" THEN [res |-> "panic", stdin |-> stdin]
  ELSE WriteProofs(proofs, i + 1, vk, Append(stdin, <<"proof", i, vk>>))

\* get_agg_proof_stdin
GetAggProofStdinHeadersFirst(proofs, boot_infos, headers, multi_block_vkey, latest_checkpoint_head) ==
  LET w == WriteProofs(proofs, 1, multi_block_vkey, <<>>)
  IN  IF w.res = "panic" THEN w
      ELSE [res |-> "ok",
            stdin |-> w.stdin
              \o <<Cbor(headers)>>
              \o <<[boot_infos |-> boot_infos,
                    latest_l1_checkpoint_head |-> latest_checkpoint_head,
                    multi_block_vkey |-> VkeyDigest(multi_block_vkey)]>>]
GetAggProofStdin(proofs, boot_infos, headers, multi_block_vkey, latest_checkpoint_head) ==
  LET w == WriteProofs(proofs, 1, multi_block_vkey, <<>>)
  IN  IF w.res = "panic" THEN w
      ELSE [res |-> "ok",
            stdin |-> w.stdin
              \o <<[boot_infos |-> boot_infos,
                    latest_l1_checkpoint_head |-> latest_checkpoint_head,
                    multi_block_vkey |-> VkeyDigest(multi_block_vkey)]>>
              \o <<Cbor(headers)>>]

RespondAgg(rec, code) == [rec EXCEPT !.pc = "responded", !.resp = code]

\* request_agg_proof up to the fetch of the headers: the sub-proofs are
\* deserialized and the head is parsed. Either unwrap panics on a malformed
\* input; hex that does not decode is returned as an error.
AggReceiveOf(sps, head) ==
  LET rec == [IdleAgg EXCEPT !.subproofs = sps, !.head = head]
  IN  /\ agg.pc \in {"idle", "responded"}
      /\ agg' =
           IF \E i \in 1..Len(sps) : sps[i].variant = "garbled"
             THEN RespondAgg(rec, "crashed")
           ELSE IF head.kind = "noprefix" THEN RespondAgg(rec, "crashed")
           ELSE IF head.kind = "badhex" THEN RespondAgg(rec, "500")
           ELSE IF head.kind = "wronglen" THEN RespondAgg(rec, "crashed")
           ELSE [rec EXCEPT !.pc = "fetch"]
      /\ UNCHANGED <<pvars, span, poll>>

AggReceive ==
  \E sps \in SeqsOf(SubProofs, 1, MaxSub), head \in HeadStrings :
    AggReceiveOf(sps, head)

\* The same for the requests whose sub-proofs deserialize and all prove the
\* span from output 0 under L1 head 1, and whose head is well-formed.
SpanProofsOfOneSpan ==
  {sp \in SubProofs : sp.variant # "garbled" /\ sp.l1_head = 1 /\ sp.l2PreRoot = 0}
AggReceiveWellFormed ==
  \E sps \in SeqsOf(SpanProofsOfOneSpan, 1, MaxSub),
     head \in {h \in HeadStrings : h.kind = "ok"} :
    AggReceiveOf(sps, head)

\* get_header_preimages / fetch_header_preimages: an error of the RPC, or the
\* headers it returned.
AggFetchHeaders ==
  /\ agg.pc = "fetch"
  /\ \/ agg' = RespondAgg(agg, "500")
     \/ \E hs \in SeqsOf(L1Headers, 0, MaxSub) :
          agg' = [agg EXCEPT !.headers = hs, !.pc = "assemble"]
  /\ UNCHANGED <<pvars, span, poll>>

\* request_agg_proof from get_agg_proof_stdin on: the stdin is assembled and
\* the proof is requested in PLONK mode.
AggAssembleAndSubmit ==
  LET proofs == [i \in 1..Len(agg.subproofs) |-> agg.subproofs[i].variant]
      boot_infos == [i \in 1..Len(agg.subproofs) |->
                       [l1_head |-> agg.subproofs[i].l1_head,
                        l2PreRoot |-> agg.subproofs[i].l2PreRoot,
                        l2PostRoot |-> agg.subproofs[i].l2PostRoot]]
      out == GetAggProofStdin(proofs, boot_infos, agg.headers, RangeVkey, agg.head.hash)
  IN  /\ agg.pc = "assemble"
      /\ IF out.res = "panic"
         THEN agg' = RespondAgg([agg EXCEPT !.assembled = "panic", !.stdin = out.stdin],
                                "crashed")
         ELSE \E code \in {"200", "500"} :
                agg' = RespondAgg([agg EXCEPT !.assembled = "ok", !.stdin = out.stdin,
                                              !.submitted = TRUE], code)
      /\ UNCHANGED <<pvars, span, poll>>

NextAggregation ==
  \/ AggReceive
  \/ AggFetchHeaders
  \/ AggAssembleAndSubmit

\* ---------------------------------------------------------------- status
\* SP1ProofStatus: the status codes of the prover network and their names.
StatusName(code) ==
  CASE code = 0 -> "PROOF_UNSPECIFIED_STATUS"
    [] code = 1 -> "PROOF_PREPARING"
    [] code = 2 -> "PROOF_REQUESTED"
    [] code = 3 -> "PROOF_CLAIMED"
    [] code = 4 -> "PROOF_UNCLAIMED"
    [] code = 5 -> "PROOF_FULFILLED"
    [] OTHER -> "unknown"
\* The codes an answer may carry; the last one is none of SP1ProofStatus.
StatusCodes == {0, 1, 2, 3, 4, 5, 6}
KnownStatus(code) == StatusName(code) # "unknown"
ProofFulfilled(code) == StatusName(code) = "PROOF_FULFILLED"

\* SP1ProofWithPublicValues: the proof of a variant and the public values.
PolledProofs ==
  {[variant |-> v, proof |-> <<v, "proof">>, public_values |-> pv] :
     v \in {"compressed", "plonk", "core"}, pv \in {"pv1", "pv2"}}

\* bincode::serialize of the whole struct.
OnChainBytesAsFullStruct(proof) == <<proof.variant, proof.proof, proof.public_values>>
BincodeSerialize(proof) == <<proof.variant, proof.proof, proof.public_values>>
\* SP1ProofWithPublicValues::bytes: the proof bytes that go on chain.
OnChainBytes(proof) == <<proof.proof>>

\* What NetworkClient::get_proof_status hands back within or after the
\* deadline: the network downloads the proof exactly when the status is
\* fulfilled.
PollAnswers ==
  {[kind |-> "timeout", status |-> 0, proof |-> None],
   [kind |-> "rpc_error", status |-> 0, proof |-> None]}
    \cup {[kind |-> "ok", status |-> c, proof |-> None] :
            c \in {c \in StatusCodes : ~ProofFulfilled(c)}}
    \cup {[kind |-> "ok", status |-> c, proof |-> Some(pr)] :
            c \in {c \in StatusCodes : ProofFulfilled(c)}, pr \in PolledProofs}

\* get_proof_status from the answer of the poll on: the HTTP code, and for
\* a 200 the status label and the proof bytes.
StatusResponse(answer) ==
  LET failed == [code |-> "500", status |-> "", proof |-> <<>>]
      empty == [code |-> "200", status |-> StatusName(answer.status), proof |-> <<>>]
  IN  IF answer.kind # "ok" THEN failed
      ELSE IF ~KnownStatus(answer.status) THEN failed
      ELSE IF ProofFulfilled(answer.status)
        THEN IF answer.proof = None THEN [failed EXCEPT !.code = "crashed"]
             ELSE IF answer.proof[1].variant = "compressed"
               THEN [empty EXCEPT !.proof = BincodeSerialize(answer.proof[1])]
             ELSE IF answer.proof[1].variant = "plonk"
               THEN [empty EXCEPT !.proof = OnChainBytes(answer.proof[1])]
             ELSE empty
      ELSE empty

IdlePoll ==
  [pc |-> "idle", answer |-> [kind |-> "none", status |-> 0, proof |-> None],
   code |-> "none", status |-> "", proof |-> <<>>]

\* GET /status/:id arrives: SP1_PRIVATE_KEY is read, and its absence is a 500.
StatusReceive(r) ==
  /\ poll[r].pc = "idle"
  /\ \/ poll' = [poll EXCEPT ![r].pc = "polling"]
     \/ poll' = [poll EXCEPT ![r].pc = "responded", ![r].code = "500"]
  /\ UNCHANGED <<pvars, span, agg>>

\* The poll of the prover network ends, by its answer or by the 10 s deadline,
\* and the handler responds.
StatusAnswer(r) ==
  \E answer \in PollAnswers :
    LET out == StatusResponse(answer)
    IN  /\ poll[r].pc = "polling"
        /\ poll' = [poll EXCEPT ![r] =
             [pc |-> "responded", answer |-> answer, code |-> out.code,
              status |-> out.status, proof |-> out.proof]]
        /\ UNCHANGED <<pvars, span, agg>>

NextStatus ==
  \E r \in Reqs :
    \/ StatusReceive(r)
    \/ StatusAnswer(r)

\* ------------------------------------------ the cache mutexes, step by step
\* Two clones of one provider: they share the four Arc<Mutex<HashMap>>.
Clones == {1, 2}
Mutexes ==
  {"header_by_number", "block_by_number", "system_config_by_number",
   "l2_block_info_by_number"}
ProviderCalls ==
  {"header_by_number", "block_by_number", "l2_block_info_by_number",
   "system_config_by_number", "update_cache"}
\* The caches a call locks, in the order it reaches them: a read looks up its
\* own cache and on a miss calls the read below it; update_cache inserts into
\* the four caches one statement after the other.
LockChain(op) ==
  CASE op = "header_by_number" -> <<"header_by_number">>
    [] op = "block_by_number" -> <<"block_by_number", "header_by_number">>
    [] op = "l2_block_info_by_number" ->
         <<"l2_block_info_by_number", "block_by_number", "header_by_number">>
    [] op = "system_config_by_number" ->
         <<"system_config_by_number", "block_by_number", "header_by_number">>
    [] op = "update_cache" ->
         <<"header_by_number", "block_by_number", "system_config_by_number",
           "l2_block_info_by_number">>
CacheOf(c) ==
  CASE c = "header_by_number" -> header_by_number
    [] c = "block_by_number" -> block_by_number
    [] c = "system_config_by_number" -> system_config_by_number
    [] c = "l2_block_info_by_number" -> l2_block_info_by_number
\* The numbers the clones work on: the safe head of the honest host and the
\* block the executor builds on top of it.
SharedReadNums == {MaxNum - 1, MaxNum}
ExecutedNums == {MaxNum}
\* The places of a call where the future is suspended on the oracle.
SuspensionPoints == {"await_hint_write", "await_preimage_get", "await_txs_hint_write"}
IdleTask == [op |-> "none", n |-> 0, txs |-> <<>>, i |-> 0, ph |-> "idle"]
LocksUnchanged ==
  UNCHANGED <<oracle, ret, nupd, history, span, agg, poll, run, pipes>>

\* A clone enters one of the provider's operations.
CloneCalls(t) ==
  /\ task[t].ph = "idle"
  /\ \E op \in ProviderCalls :
       \E n \in (IF op = "update_cache" THEN ExecutedNums ELSE SharedReadNums),
          txs \in (IF op = "update_cache" THEN ExecTxs ELSE {<<>>}) :
         task' = [task EXCEPT ![t] = [op |-> op, n |-> n, txs |-> txs, i |-> 1, ph |-> "lock"]]
  /\ UNCHANGED <<mutex, caches>>
  /\ LocksUnchanged

\* Mutex::lock: waits while another clone holds the mutex.
CloneLocks(t) ==
  LET me == task[t]
      c == LockChain(me.op)[me.i]
  IN  /\ me.ph = "lock"
      /\ mutex[c] = 0
      /\ mutex' = [mutex EXCEPT ![c] = t]
      /\ task' = [task EXCEPT ![t].ph = "held"]
      /\ UNCHANGED caches
      /\ LocksUnchanged

\* Where a read goes on after the lookup of cache c of its chain.
AfterLookup(me, c, hit) ==
  IF hit
  THEN IF me.i = 1 THEN IdleTask
       ELSE IF c = "header_by_number" THEN [me EXCEPT !.ph = "await_txs_hint_write"]
       ELSE IdleTask
  ELSE IF me.i < Len(LockChain(me.op))
       THEN [me EXCEPT !.i = me.i + 1, !.ph = "lock"]
       ELSE [me EXCEPT !.ph = "await_hint_write"]

\* The cache lookup of a read: `if let Some(..) = cache.lock().unwrap().get(..)`.
CloneLooksUpKeepingGuard(t) ==
  LET me == task[t]
      c == LockChain(me.op)[me.i]
      hit == CacheGet(CacheOf(c), me.n) # None
  IN  /\ me.ph = "held"
      /\ me.op # "update_cache"
      /\ mutex' = IF hit THEN [mutex EXCEPT ![c] = 0] ELSE mutex
      /\ task' = [task EXCEPT ![t] = AfterLookup(me, c, hit)]
      /\ UNCHANGED caches
      /\ LocksUnchanged
CloneLooksUp(t) ==
  LET me == task[t]
      c == LockChain(me.op)[me.i]
      hit == CacheGet(CacheOf(c), me.n) # None
  IN  /\ me.ph = "held"
      /\ me.op # "update_cache"
      /\ mutex' = [mutex EXCEPT ![c] = 0]
      /\ task' = [task EXCEPT ![t] = AfterLookup(me, c, hit)]
      /\ UNCHANGED caches
      /\ LocksUnchanged

\* header_by_number resumes after the write of the starting-l2-output hint.
CloneHintWritten(t) ==
  /\ task[t].ph = "await_hint_write"
  /\ task' = [task EXCEPT ![t].ph = "await_preimage_get"]
  /\ UNCHANGED <<mutex, caches>>
  /\ LocksUnchanged

\* header_by_number resumes after the get of the output preimage, walks to the
\* header and returns; block_by_number goes on with a header.
CloneGotOutput(t) ==
  LET me == task[t]
  IN  /\ me.ph = "await_preimage_get"
      /\ task' = [task EXCEPT ![t] =
           IF HeaderByNumberMiss(me.n).res = "ok" /\ me.op # "header_by_number"
           THEN [me EXCEPT !.ph = "await_txs_hint_write"]
           ELSE IdleTask]
      /\ UNCHANGED <<mutex, caches>>
      /\ LocksUnchanged

\* block_by_number resumes after the write of the l2-transactions hint, reads
\* the trie and returns to its caller, which returns.
CloneTxsHintWritten(t) ==
  /\ task[t].ph = "await_txs_hint_write"
  /\ task' = [task EXCEPT ![t] = IdleTask]
  /\ UNCHANGED <<mutex, caches>>
  /\ LocksUnchanged

\* One insert statement of update_cache: the guard is taken first, then the
\* value is evaluated (to_system_config for the system-config cache, where an
\* error returns), then the row is inserted and the guard dropped.
CloneInserts(t) ==
  LET me == task[t]
      c == LockChain(me.op)[me.i]
      header == ExecHeader(NumHashes + 1, me.n)
      block == ExecBlock(header, me.txs)
      sc == ToSystemConfig(block)
      bi == FromBlockAndGenesis(block)
  IN  /\ me.ph = "held"
      /\ me.op = "update_cache"
      /\ mutex' = [mutex EXCEPT ![c] = 0]
      /\ header_by_number' =
           IF c = "header_by_number" THEN CacheInsert(header_by_number, me.n, header)
           ELSE header_by_number
      /\ block_by_number' =
           IF c = "block_by_number" THEN CacheInsert(block_by_number, me.n, block)
           ELSE block_by_number
      /\ system_config_by_number' =
           IF c = "system_config_by_number" /\ sc.ok
           THEN CacheInsert(system_config_by_number, me.n, sc.val[1])
           ELSE system_config_by_number
      /\ l2_block_info_by_number' =
           IF c = "l2_block_info_by_number"
           THEN CacheInsert(l2_block_info_by_number, me.n, bi.val[1])
           ELSE l2_block_info_by_number
      /\ task' = [task EXCEPT ![t] =
           IF \/ c = "l2_block_info_by_number"
              \/ (c = "system_config_by_number" /\ ~(sc.ok /\ bi.ok))
           THEN IdleTask
           ELSE [me EXCEPT !.i = me.i + 1, !.ph = "lock"]]
      /\ LocksUnchanged

NextLocks ==
  \E t \in Clones :
    \/ CloneCalls(t)
    \/ CloneLocks(t)
    \/ CloneLooksUp(t)
    \/ CloneHintWritten(t)
    \/ CloneGotOutput(t)
    \/ CloneTxsHintWritten(t)
    \/ CloneInserts(t)

\* ------------------------------------------------ two runs of the host
Runs == {1, 2}
EmptyPipe == [toHost |-> <<>>, toClient |-> <<>>]
NoEnds == [hint |-> 0, preimage |-> 0]
IdleRun ==
  [pc |-> "idle", hint |-> 0, preimage |-> 0,
   server |-> NoEnds, serving |-> FALSE,
   client |-> NoEnds, at |-> "none", sent |-> 0,
   seen |-> {}, rows |-> {}]
RunsUnchanged ==
  UNCHANGED <<oracle, caches, ret, nupd, history, span, agg, poll, mutex, task>>

\* BidirectionalChannel::new for the hint channel: a new pair of pipes, or an
\* I/O error that ends the run.
RunSharedHintChannel(r) ==
  /\ run[r].pc = "idle"
  /\ \E ok \in BOOLEAN :
       IF ok
       THEN /\ pipes' = IF pipes = <<>> THEN <<EmptyPipe>> ELSE pipes
            /\ run' = [run EXCEPT ![r].pc = "hint_made", ![r].hint = 1]
       ELSE /\ run' = [run EXCEPT ![r].pc = "failed"]
            /\ UNCHANGED pipes
  /\ RunsUnchanged
RunNewHintChannel(r) ==
  /\ run[r].pc = "idle"
  /\ \E ok \in BOOLEAN :
       IF ok
       THEN /\ pipes' = Append(pipes, EmptyPipe)
            /\ run' = [run EXCEPT ![r].pc = "hint_made", ![r].hint = Len(pipes) + 1]
       ELSE /\ run' = [run EXCEPT ![r].pc = "failed"]
            /\ UNCHANGED pipes
  /\ RunsUnchanged

\* BidirectionalChannel::new for the preimage channel.
RunNewPreimageChannel(r) ==
  /\ run[r].pc = "hint_made"
  /\ \E ok \in BOOLEAN :
       IF ok
       THEN /\ pipes' = Append(pipes, EmptyPipe)
            /\ run' = [run EXCEPT ![r].pc = "channels", ![r].preimage = Len(pipes) + 1]
       ELSE /\ run' = [run EXCEPT ![r].pc = "failed"]
            /\ UNCHANGED pipes
  /\ RunsUnchanged

\* start_server(hint.host, preimage.host) spawns the server task, or fails and
\* ends the run; then run_witnessgen_client(preimage.client, hint.client) is
\* entered.
RunStartsServerAndClient(r) ==
  /\ run[r].pc = "channels"
  /\ \E ok \in BOOLEAN :
       run' = [run EXCEPT ![r] =
         IF ok
         THEN [run[r] EXCEPT
                 !.pc = "client",
                 !.server = [hint |-> run[r].hint, preimage |-> run[r].preimage],
                 !.serving = TRUE,
                 !.client = [hint |-> run[r].hint, preimage |-> run[r].preimage],
                 !.at = "write"]
         ELSE [run[r] EXCEPT !.pc = "failed"]]
  /\ UNCHANGED pipes
  /\ RunsUnchanged

\* The replay client writes a hint frame on the client end of its hint channel.
ReplayWritesHint(r) ==
  LET me == run[r]
  IN  /\ me.pc = "client" /\ me.at = "write"
      /\ me.sent < MaxReq
      /\ pipes' = [pipes EXCEPT ![me.client.hint].toHost =
                     Append(@, [from |-> r, frame |-> "hint"])]
      /\ run' = [run EXCEPT ![r].at = "wait_ack", ![r].sent = @ + 1]
      /\ RunsUnchanged

\* The server task reads a hint frame from the host end of its hint channel
\* and acknowledges it.
ServerReadsHint(r) ==
  LET me == run[r]
      ch == me.server.hint
  IN  /\ me.serving
      /\ pipes[ch].toHost # <<>>
      /\ pipes' = [pipes EXCEPT ![ch].toHost = Tail(@),
                                ![ch].toClient = Append(@, [from |-> r, frame |-> "ack"])]
      /\ run' = [run EXCEPT ![r].seen = @ \cup {Head(pipes[ch].toHost).from}]
      /\ RunsUnchanged

\* The replay client reads the acknowledgement and goes on to the get.
ReplayReadsAck(r) ==
  LET me == run[r]
      ch == me.client.hint
  IN  /\ me.pc = "client" /\ me.at = "wait_ack"
      /\ pipes[ch].toClient # <<>>
      /\ pipes' = [pipes EXCEPT ![ch].toClient = Tail(@)]
      /\ run' = [run EXCEPT ![r].at = "get",
                            ![r].seen = @ \cup {Head(pipes[ch].toClient).from}]
      /\ RunsUnchanged

\* The replay client writes a get frame on the client end of its preimage
\* channel.
ReplayWritesGet(r) ==
  LET me == run[r]
  IN  /\ me.pc = "client" /\ me.at = "get"
      /\ pipes' = [pipes EXCEPT ![me.client.preimage].toHost =
                     Append(@, [from |-> r, frame |-> "get"])]
      /\ run' = [run EXCEPT ![r].at = "wait_preimage"]
      /\ RunsUnchanged

\* The server task reads a get frame from the host end of its preimage channel
\* and writes the response.
ServerAnswersGet(r) ==
  LET me == run[r]
      ch == me.server.preimage
  IN  /\ me.serving
      /\ pipes[ch].toHost # <<>>
      /\ pipes' = [pipes EXCEPT ![ch].toHost = Tail(@),
                                ![ch].toClient = Append(@, [from |-> r, frame |-> "preimage"])]
      /\ run' = [run EXCEPT ![r].seen = @ \cup {Head(pipes[ch].toHost).from}]
      /\ RunsUnchanged

\* The replay client reads the response; its provider, created by new with
\* empty caches, caches a row made of it.
ReplayReadsPreimage(r) ==
  LET me == run[r]
      ch == me.client.preimage
  IN  /\ me.pc = "client" /\ me.at = "wait_preimage"
      /\ pipes[ch].toClient # <<>>
      /\ pipes' = [pipes EXCEPT ![ch].toClient = Tail(@)]
      /\ run' = [run EXCEPT ![r].at = "write",
                            ![r].seen = @ \cup {Head(pipes[ch].toClient).from},
                            ![r].rows = @ \cup {[of |-> Head(pipes[ch].toClient).from,
                                                 n |-> me.sent]}]
      /\ RunsUnchanged

\* The replay client returns the in-memory oracle: the server task is aborted
\* and the run returns.
RunReturns(r) ==
  /\ run[r].pc = "client"
  /\ run[r].at = "write"
  /\ run' = [run EXCEPT ![r].pc = "done", ![r].serving = FALSE, ![r].at = "done"]
  /\ UNCHANGED pipes
  /\ RunsUnchanged

\* The replay client returns an error: the run returns it and leaves the
\* server task running.
RunClientFails(r) ==
  /\ run[r].pc = "client"
  /\ run' = [run EXCEPT ![r].pc = "failed", ![r].at = "failed"]
  /\ UNCHANGED pipes
  /\ RunsUnchanged

NextRuns ==
  \E r \in Runs :
    \/ RunNewHintChannel(r)
    \/ RunNewPreimageChannel(r)
    \/ RunStartsServerAndClient(r)
    \/ ReplayWritesHint(r)
    \/ ServerReadsHint(r)
    \/ ReplayReadsAck(r)
    \/ ReplayWritesGet(r)
    \/ ServerAnswersGet(r)
    \/ ReplayReadsPreimage(r)
    \/ RunReturns(r)
    \/ RunClientFails(r)

\* No clone is inside a call, no run has started.
InitConcurrency ==
  /\ mutex = [c \in Mutexes |-> 0]
  /\ task = [t \in Clones |-> IdleTask]
  /\ run = [r \in Runs |-> IdleRun]
  /\ pipes = <<>>

InitGateway ==
  /\ span = [r \in Reqs |-> IdleSpan]
  /\ agg = IdleAgg
  /\ poll = [r \in Reqs |-> IdlePoll]

Init == InitProvider /\ HonestOracle /\ InitGateway /\ InitConcurrency

Spec == Init /\ [][Next]_vars

\* The provider over any oracle content, with at most one executed block
\* promoted into the caches.
InitAnyOracle == InitProvider /\ AnyOracle /\ InitGateway /\ InitConcurrency

UpdateCacheOnce == nupd = 0 /\ UpdateCache

NextAnyOracle ==
  \/ UpdateCacheOnce
  \/ HeaderByNumberOp
  \/ BlockByNumberOp
  \/ L2BlockInfoByNumberOp
  \/ SystemConfigByNumberOp
  \/ HeaderByHashOp

SpecAnyOracle == InitAnyOracle /\ [][NextAnyOracle]_vars

\* The number-keyed reads of the provider over the preimages of an honest
\* host, with at most one executed block promoted into the caches.
NextReads ==
  \/ UpdateCacheOnce
  \/ HeaderByNumberOp
  \/ BlockByNumberOp
  \/ L2BlockInfoByNumberOp
  \/ SystemConfigByNumberOp

SpecReads == Init /\ [][NextReads]_vars

\* The provider over the preimages of an honest host, with the blocks of a run
\* promoted into the caches one after the other and looked up by number.
NextUpdates ==
  \/ UpdateCache
  \/ HeaderByNumberOp
  \/ BlockByNumberOp
  \/ L2BlockInfoByNumberOp
  \/ SystemConfigByNumberOp

SpecUpdates == Init /\ [][NextUpdates]_vars

\* The gateway handling span-proof requests.
SpecGateway == Init /\ [][NextGateway]_vars

\* The gateway handling aggregation requests.
SpecAggregation == Init /\ [][NextAggregation]_vars

\* The gateway assembling the stdin of well-formed aggregation requests.
NextAssembly ==
  \/ AggReceiveWellFormed
  \/ AggFetchHeaders
  \/ AggAssembleAndSubmit

SpecAssembly == Init /\ [][NextAssembly]_vars

\* Two clones of the provider stepping through their calls.
SpecLocks == Init /\ [][NextLocks]_vars

\* Two calls of OPSuccinctHost::run stepping through their channels.
SpecRuns == Init /\ [][NextRuns]_vars

\* The gateway handling status requests.
SpecStatus == Init /\ [][NextStatus]_vars

\* ============================================================ properties
NumberReads ==
  {"header_by_number", "block_by_number", "l2_block_info_by_number", "system_config_by_number"}

\* The output preimage names a safe head whose header the oracle holds.
SafeHeadResolves ==
  /\ oraclePre.present
  /\ SafeHeadHash \in Hashes
  /\ oracleHdr[SafeHeadHash].kind = "hdr"
SafeHeadNumber == oracleHdr[SafeHeadHash].number

\* The headers on the parent chain that starts at the safe head: a header is on
\* it when every header from it up to the safe head is held and decodable.
ChainHeaders ==
  IF ~oraclePre.present \/ SafeHeadHash \notin Hashes THEN {}
  ELSE {[hash |-> h, number |-> oracleHdr[h].number, parent_hash |-> h - 1,
         transactions_root |-> h, timestamp |-> oracleHdr[h].number] :
          h \in {x \in 1..SafeHeadHash : \A k \in x..SafeHeadHash : oracleHdr[k].kind = "hdr"}}

\* ---- C3
\* C3: header_by_number(n), for n not in the header cache and greater than the
\* number of the safe head, returns the out-of-range error and no header, sends
\* no l2-block-header hint but the one for the safe-head hash, and leaves the
\* four caches as they were.
C3_Case(n) ==
  /\ header_by_number[n] = None
  /\ SafeHeadResolves
  /\ n > SafeHeadNumber
C3_PastSafeHeadOutOfRange ==
  [][\A n \in Nums :
       (C3_Case(n) /\ ret'.op = "header_by_number" /\ ret'.arg = n)
         => /\ ret'.res = "err"
            /\ ret'.err = "Block number past L2 head."
            /\ ret'.val = None
            /\ ret'.hints = <<Hint("starting-l2-output", OutputRoot),
                              Hint("l2-block-header", SafeHeadHash)>>
            /\ ret'.gets = <<Key("output", OutputRoot), Key("header", SafeHeadHash)>>
            /\ caches' = caches]_vars
C3_Witness ==
  /\ ret.op = "header_by_number"
  /\ C3_Case(ret.arg)
  /\ ret.err = "Block number past L2 head."

\* ---- C4
\* C4: for every oracle content, a header_by_number(n) that misses the cache,
\* with n at most the number of the safe head, returns only a header whose
\* number is n and that lies on the parent chain of the safe head.
C4_WalkReturnsRequestedNumber ==
  (/\ ret.op = "header_by_number"
   /\ header_by_number[ret.arg] = None
   /\ SafeHeadResolves
   /\ ret.arg <= SafeHeadNumber
   /\ ret.res = "ok")
    => /\ ret.val[1].number = ret.arg
       /\ ret.val[1] \in ChainHeaders

\* ---- C5
\* The field of a stored update that a number-keyed read returns.
StoredFor(op, stored) ==
  CASE op = "header_by_number" -> Some(stored.header)
    [] op = "block_by_number" -> Some(stored.block)
    [] op = "l2_block_info_by_number" -> stored.l2_block_info
    [] op = "system_config_by_number" -> stored.system_config

C6_FourCachesFilledTogether ==
  \A n \in Nums :
    \/ \A i \in 1..4 : n \in Keys(caches[i])
    \/ \A i \in 1..4 : n \notin Keys(caches[i])

\* ---- C7
\* C7: a block number that is a key of one of the four caches stays a key of it
\* after every operation of the provider.
C7_NoEviction ==
  [][\A i \in 1..4 : Keys(caches[i]) \subseteq Keys(caches'[i])]_vars
C7_Witness ==
  /\ nupd = 2
  /\ Cardinality(Keys(header_by_number)) = 2
  /\ ret.op \in NumberReads
  /\ ret.res = "err"

\* ---- C8
\* The transactions of the trie the oracle holds under a root.
TrieTransactions(root) ==
  [i \in 1..Len(TrieLeaves(root)[1]) |-> TrieLeaves(root)[1][i][2]]
\* The blocks assembled from a header of the chain and the trie under its
\* transactions root.
ChainBlocks ==
  {b \in {[header |-> h, transactions |-> TrieTransactions(h.transactions_root),
           ommers |-> <<>>, withdrawals |-> w, requests |-> None] :
            h \in {x \in ChainHeaders : TrieLeaves(x.transactions_root) # None},
            w \in {None, Some(<<>>)}} : TRUE}
\* C8: a value returned by a number-keyed read of n was inserted by
\* update_cache under n, or is derived from the preimages of the parent chain
\* that starts at the safe head of the prestate output root.
C8_ReturnedValuesOrigin ==
  (ret.op \in NumberReads /\ ret.res = "ok")
    => \/ ret.val[1] \in inserted[ret.arg]
       \/ /\ ret.op = "header_by_number"
          /\ ret.val[1] \in ChainHeaders
       \/ /\ ret.op = "block_by_number"
          /\ ret.val[1] \in ChainBlocks
       \/ /\ ret.op = "l2_block_info_by_number"
          /\ \E b \in ChainBlocks :
               /\ b.transactions[1] = "dep"
               /\ ret.val[1] = [block_info |-> [hash |-> b.header.hash,
                                                number |-> b.header.number],
                                l1_origin_of |-> b.header.hash]
       \/ /\ ret.op = "system_config_by_number"
          /\ \E b \in ChainBlocks :
               /\ b.transactions[1] = "dep"
               /\ ret.val[1] = [system_config_of |-> b.header.hash]
C8_Witness ==
  /\ ret.op = "block_by_number"
  /\ ret.res = "ok"
  /\ block_by_number[ret.arg] = None
  /\ Len(ret.gets) >= 4

\* ---- C1
\* C1: a span handler submits a proof request only if the witness generation
\* of the request completed successfully within its deadline; when it failed
\* or timed out the handler answers 500 and has submitted nothing.
WitnessSucceeded(rec) == rec.witness \in {"ok", "exit_success"}
C1_SubmitOnlyAfterWitness ==
  \A r \in Reqs :
    /\ span[r].submitted => WitnessSucceeded(span[r])
    /\ (span[r].pc = "responded" /\ span[r].witness # "none" /\ ~WitnessSucceeded(span[r]))
         => (span[r].resp = "500" /\ ~span[r].submitted)

\* ---- C2
\* C2: once the server task of a run was started, the run has not returned or
\* been dropped while the server task is un-aborted.
C2_ServerAbortedOnEveryExit ==
  \A r \in Reqs :
    (span[r].variant = "inproc" /\ span[r].server # "none" /\ span[r].witness # "none")
      => span[r].server = "aborted"

\* ---- C9
\* C9: when a sub-proof handed to get_agg_proof_stdin is not compressed, the
\* outcome is an error value answered as a 500, with nothing submitted.
C9_BadSubproofIsAnError ==
  (/\ agg.pc = "responded"
   /\ agg.assembled # "none"
   /\ \E i \in 1..Len(agg.subproofs) : agg.subproofs[i].variant # "compressed")
    => /\ agg.assembled = "error"
       /\ agg.resp = "500"
       /\ ~agg.submitted

\* ---- C10
\* The header list covers the L1 head of every sub-proof and is linked by
\* parent hashes.
HeaderChainValid(subproofs, headers) ==
  /\ \A i \in 1..Len(subproofs) :
       \E j \in 1..Len(headers) : headers[j].hash = subproofs[i].l1_head
  /\ \A j \in 1..(Len(headers) - 1) : headers[j + 1].parent_hash = headers[j].hash
\* C10: get_agg_proof_stdin yields a stdin, and a request is submitted, only
\* for a validated header chain.
C10_StdinOnlyForValidChain ==
  (agg.assembled = "ok" \/ agg.submitted)
    => HeaderChainValid(agg.subproofs, agg.headers)

\* ---- C11
\* Adjacent boot infos chain: the poststate of each is the prestate of the next.
BootInfosChain(subproofs) ==
  \A i \in 1..(Len(subproofs) - 1) :
    subproofs[i].l2PostRoot = subproofs[i + 1].l2PreRoot
\* C11: an aggregation request answered 200 has boot infos that chain; one
\* whose boot infos do not chain is answered 500 and submits nothing.
C11_AggregatedBootInfosChain ==
  agg.pc = "responded"
    => /\ agg.resp = "200" => BootInfosChain(agg.subproofs)
       /\ (agg.assembled # "none" /\ ~BootInfosChain(agg.subproofs))
            => (agg.resp = "500" /\ ~agg.submitted)

\* ---- C12
\* The proof bytes the status handler owes for an answered poll.
ExpectedProofBytes(answer) ==
  IF ~ProofFulfilled(answer.status) \/ answer.proof = None THEN <<>>
  ELSE LET pr == answer.proof[1]
       IN  IF pr.variant = "compressed" THEN <<pr.variant, pr.proof, pr.public_values>>
           ELSE IF pr.variant = "plonk" THEN <<pr.proof>>
           ELSE <<>>
StatusAsClaimed(p) ==
  /\ p.code = "200"
  /\ p.status = StatusName(p.answer.status)
  /\ p.proof = ExpectedProofBytes(p.answer)
  /\ p.proof # <<>> => ProofFulfilled(p.answer.status)
\* C12 as stated: every poll the prover answers within the deadline is a 200
\* with the status label and the proof bytes of the variant.
C12_AnsweredPollIs200 ==
  \A r \in Reqs :
    (poll[r].pc = "responded" /\ poll[r].answer.kind = "ok") => StatusAsClaimed(poll[r])
\* C12 as the code has it: the same for an answer that carries one of the
\* status codes of SP1ProofStatus; a fulfilled proof of another variant has
\* empty bytes, and an answer with another code is a 500.
C12_KnownStatusPollIs200 ==
  \A r \in Reqs :
    /\ (poll[r].pc = "responded" /\ poll[r].answer.kind = "ok"
          /\ KnownStatus(poll[r].answer.status)) => StatusAsClaimed(poll[r])
    /\ (poll[r].pc = "responded" /\ poll[r].answer.kind = "ok"
          /\ ~KnownStatus(poll[r].answer.status)) => poll[r].code = "500"
C12_Witness ==
  \E r1, r2 \in Reqs :
    /\ poll[r1].pc = "responded" /\ poll[r1].answer.kind = "ok"
    /\ poll[r1].answer.proof # None /\ poll[r1].answer.proof[1].variant = "plonk"
    /\ poll[r1].proof # <<>>
    /\ poll[r2].pc = "responded" /\ poll[r2].answer.kind = "ok"
    /\ poll[r2].answer.proof # None /\ poll[r2].answer.proof[1].variant = "compressed"

\* ---- C13
\* C13: a header_by_number that misses the cache and finds an output preimage
\* too short to hold bytes 96..128 returns an error value, requests no header
\* and returns none; and one whose safe-head preimage does not RLP-decode
\* returns an error.
C13_ShortPreimageIsAnError ==
  (ret.op = "header_by_number" /\ CacheGet(header_by_number, ret.arg) = None
     /\ oraclePre.present)
    => /\ ~SliceInRange(oraclePre.words)
            => /\ ret.res = "err"
               /\ ret.val = None
               /\ \A i \in 1..Len(ret.hints) : ret.hints[i][1] # "l2-block-header"
       /\ (SliceInRange(oraclePre.words)
             /\ oracleHdr[BlockHashOf(oraclePre.words)].kind = "bad")
            => ret.res = "err"

\* ---- C14
\* The four caches agree on n: n is a key of all or of none, and the entries
\* are those of one block.
CachesAgreeOn(n) ==
  \/ \A cache \in {header_by_number, block_by_number, system_config_by_number,
                   l2_block_info_by_number} : CacheGet(cache, n) = None
  \/ /\ \A cache \in {header_by_number, block_by_number, system_config_by_number,
                      l2_block_info_by_number} : CacheGet(cache, n) # None
     /\ LET block == CacheGet(block_by_number, n)[1]
        IN  /\ CacheGet(header_by_number, n) = Some(block.header)
            /\ CacheGet(system_config_by_number, n) = ToSystemConfig(block).val
            /\ CacheGet(l2_block_info_by_number, n) = FromBlockAndGenesis(block).val
\* C14: in a run that ends with a number-keyed read of n, the four caches
\* agree on n.
C14_CachesAgreeOnReadNumbers ==
  ret.op \in NumberReads => CachesAgreeOn(ret.arg)

\* ---- C15
\* C15, the external-process variant: a span request whose 40 s deadline
\* expired is answered 500, and once it is answered its native_host_runner
\* process is no longer running.
C15_RunnerStoppedAfterDeadline ==
  \A r \in Reqs :
    (span[r].variant = "extproc" /\ span[r].pc = "responded"
       /\ span[r].witness = "timeout")
      => /\ span[r].resp = "500"
         /\ span[r].runner # "running"

\* ---- C16
\* The body of an aggregation request is malformed: a sub-proof does not
\* deserialize, or the head is not "0x" and the hex of 32 bytes.
MalformedAggRequest(rec) ==
  \/ \E i \in 1..Len(rec.subproofs) : rec.subproofs[i].variant = "garbled"
  \/ rec.head.kind # "ok"
\* C16: a malformed aggregation request is answered 500 and submits nothing.
C16_MalformedRequestIs500 ==
  (agg.pc = "responded" /\ MalformedAggRequest(agg))
    => (agg.resp = "500" /\ ~agg.submitted)

\* ---- C17
\* C17: in the in-process host the server task is not aborted while the replay
\* client runs; once the client has completed the server task is aborted (the
\* abort follows the completion with no suspension in between) and run returns
\* the oracle the client produced.
C17_AbortFollowsClientCompletion ==
  \A r \in Reqs :
    span[r].variant = "inproc"
      => /\ span[r].server = "aborted" => span[r].client # "running"
         /\ span[r].client = "done"
              => /\ span[r].server = "aborted"
                 /\ span[r].produced # None
                 /\ span[r].returned = span[r].produced
         /\ span[r].returned # None => span[r].client = "done"
C17_Witness ==
  \E r \in Reqs :
    /\ span[r].client = "done"
    /\ span[r].server = "aborted"
    /\ span[r].returned = Some("oracle_b")

\* ---- C18
\* The transactions root of the block with a header hash: that of the header
\* the oracle holds, or that of a header the executor handed over.
TxRootOfBlock(hash) == IF hash \in Hashes THEN TxRootOf(hash) ELSE 0
\* The hint covers the key.
Covers(hint, key) ==
  \/ key[1] = "output" /\ hint = Hint("starting-l2-output", key[2])
  \/ key[1] = "header" /\ hint = Hint("l2-block-header", key[2])
  \/ key[1] = "code" /\ hint = Hint("l2-code", key[2])
  \/ key[1] = "trie-node" /\ hint[1] = "l2-transactions" /\ TxRootOfBlock(hint[2]) = key[2]
\* Every get of the traffic comes after a hint of the traffic that covers it.
GetsFollowHints(io) ==
  \A i \in 1..Len(io) :
    IsGet(io[i]) => \E j \in 1..(i - 1) : IsWrite(io[j]) /\ Covers(io[j][2], io[i][2])
HeaderGets(gets) ==
  LET IsHeaderKey(k) == k[1] = "header"
  IN  Payloads(SelectSeq(gets, IsHeaderKey))
C20_BlockAssembledFromHeaderAndTrie ==
  (ret.op = "block_by_number" /\ CacheGet(block_by_number, ret.arg) = None)
    => LET h == HeaderByNumber(ret.arg)
       IN  /\ ret.res = "ok"
                => /\ h.res = "ok"
                   /\ ret.val[1].header = h.val[1]
                   /\ TrieLeaves(h.val[1].transactions_root) # None
                   /\ LET leaves == TrieLeaves(h.val[1].transactions_root)[1]
                      IN  /\ Len(ret.val[1].transactions) = Len(leaves)
                          /\ \A i \in 1..Len(leaves) :
                               Rlp(ret.val[1].transactions[i]) = leaves[i]
                   /\ ret.val[1].withdrawals =
                        (IF h.val[1].timestamp >= CanyonTime THEN Some(<<>>) ELSE None)
                   /\ ret.val[1].ommers = <<>>
                   /\ ret.val[1].requests = None
           /\ (/\ h.res = "ok"
               /\ TrieLeaves(h.val[1].transactions_root) # None
               /\ \E i \in 1..Len(TrieLeaves(h.val[1].transactions_root)[1]) :
                    TrieLeaves(h.val[1].transactions_root)[1][i] = Rlp("bad"))
                => (ret.res = "err" /\ ret.val = None)
C20_Witness ==
  /\ ret.op = "block_by_number"
  /\ CacheGet(block_by_number, ret.arg) = None
  /\ ret.res = "ok"
  /\ ret.val[1].withdrawals = Some(<<>>)
  /\ ret.val[1].transactions = <<"dep", "user">>
C20_WitnessBeforeCanyon ==
  /\ ret.op = "block_by_number"
  /\ CacheGet(block_by_number, ret.arg) = None
  /\ ret.res = "ok"
  /\ ret.val[1].withdrawals = None
C20_WitnessBadLeaf ==
  /\ ret.op = "block_by_number"
  /\ ret.res = "err"
  /\ ret.err = "Failed to decode TxEnvelope RLP"

\* ---- C21
\* The operation resolved the safe head: it read the output preimage and the
\* header of the safe head, and that header decoded.
Anchored(r) ==
  /\ r.op \in NumberReads
  /\ \E i \in 1..Len(r.io) : r.io[i] = Get(Key("header", SafeHeadHash))
  /\ SafeHeadResolves
\* The operation sent the starting-l2-output hint.
SentStartingOutputHint(r) ==
  \E i \in 1..Len(r.io) : r.io[i] = Write(Hint("starting-l2-output", OutputRoot))
C22_WalkFillsHeaderCache ==
  (ret.op = "header_by_number" /\ ret.io # <<>> /\ ret.res = "ok")
    => \A i \in 1..Len(HeaderGets(ret.gets)) :
         CacheGet(header_by_number, DecodeHeader(HeaderGets(ret.gets)[i]).number) # None
\* C22 as the code has it: the walk inserts nothing; after a header_by_number
\* that missed the cache the requested number is still no key of the header
\* cache, whose keys are the numbers update_cache inserted.
C22_WalkInsertsNothing ==
  (ret.op = "header_by_number" /\ ret.io # <<>>)
    => /\ CacheGet(header_by_number, ret.arg) = None
       /\ Keys(header_by_number) = {n \in Nums : inserted[n] # {}}
C22_Witness ==
  /\ ret.op = "header_by_number"
  /\ ret.res = "ok"
  /\ Len(HeaderGets(ret.gets)) >= 2
  /\ Keys(header_by_number) # {}
  /\ CacheGet(header_by_number, ret.arg) = None

\* ---- C23
\* C23 as stated: a value a cache holds for a number is never replaced.
C23_CachedValuesNeverReplaced ==
  [][\A i \in 1..4 : \A n \in Nums :
       CacheGet(caches[i], n) # None => CacheGet(caches'[i], n) = CacheGet(caches[i], n)]_vars
\* C23 as the code has it: a value a cache holds for a number n is replaced
\* only by an update_cache for a header of number n, and by a value; no other
\* operation and no update_cache of another number changes it.
C23_ReplacedOnlyByUpdateOfSameNumber ==
  [][\A i \in 1..4 : \A n \in Nums :
       (CacheGet(caches[i], n) # None /\ CacheGet(caches'[i], n) # CacheGet(caches[i], n))
         => /\ ret'.op = "update_cache"
            /\ ret'.arg = n
            /\ CacheGet(caches'[i], n) # None]_vars
\* The header cached for a number was replaced by another header.
C23_Witness ==
  \E n \in Nums :
    /\ CacheGet(header_by_number, n) # None
    /\ firstOk[n] # None
    /\ CacheGet(header_by_number, n)[1] # firstOk[n][1].header
    /\ ret.op = "update_cache"

\* ---- C24
\* The (sub-proof, verifying key) pairs of the first k sub-proofs, in order.
ProofPairs(k) == [i \in 1..k |-> <<"proof", i, RangeVkey>>]
\* The aggregation-inputs record of a request.
AggregationInputsOf(rec) ==
  [boot_infos |-> [i \in 1..Len(rec.subproofs) |->
                     [l1_head |-> rec.subproofs[i].l1_head,
                      l2PreRoot |-> rec.subproofs[i].l2PreRoot,
                      l2PostRoot |-> rec.subproofs[i].l2PostRoot]],
   latest_l1_checkpoint_head |-> rec.head.hash,
   multi_block_vkey |-> <<"hash_u32", RangeVkey>>]
\* The sub-proofs before the first that is not compressed.
CompressedPrefix(subproofs) ==
  CHOOSE k \in 0..Len(subproofs) :
    /\ \A i \in 1..k : subproofs[i].variant = "compressed"
    /\ k < Len(subproofs) => subproofs[k + 1].variant # "compressed"
StdinInOrder(rec) ==
  rec.stdin = ProofPairs(Len(rec.subproofs))
                \o <<AggregationInputsOf(rec)>> \o <<<<"cbor", rec.headers>>>>
\* C24 as stated: an assembled stdin holds the pairs, the aggregation inputs
\* and the CBOR headers in this order, and nothing is written unless every
\* sub-proof is compressed.
C24_OrderedAndCheckedFirst ==
  /\ agg.assembled = "ok" => StdinInOrder(agg)
  /\ agg.assembled = "panic" => agg.stdin = <<>>
\* C24 as the code has it: the same order; each sub-proof is checked right
\* before it is written, so when one is not compressed the pairs of the
\* sub-proofs before it have been written.
C24_OrderedAndCheckedOneByOne ==
  /\ agg.assembled = "ok" => StdinInOrder(agg)
  /\ agg.assembled = "panic"
       => agg.stdin = ProofPairs(CompressedPrefix(agg.subproofs))
C24_Witness ==
  /\ agg.assembled = "ok"
  /\ Len(agg.subproofs) >= 2
  /\ Len(agg.headers) >= 2
  /\ Len(agg.stdin) = Len(agg.subproofs) + 2

\* ---- C26
\* C26: header_by_number, block_by_number, l2_block_info_by_number and
\* system_config_by_number leave the block, system-config and L2-block-info
\* caches as they were, whatever their outcome; a step that changes the keys of
\* one of these caches is an update_cache; and a read repeated right after
\* itself for the same number has the same outcome and the same oracle
\* traffic as the first time.
C26_ReadsLeaveCachesAlone ==
  [][/\ ret'.op \in NumberReads
          => UNCHANGED <<block_by_number, system_config_by_number,
                         l2_block_info_by_number>>
     /\ (\E i \in 2..4 : Keys(caches'[i]) # Keys(caches[i]))
          => ret'.op = "update_cache"
     /\ (ret.op \in NumberReads /\ ret'.op = ret.op /\ ret'.arg = ret.arg)
          => ret' = ret]_vars
\* A block was read from the oracle and returned while another block is
\* cached, and the block cache has no row for its number.
C26_Witness ==
  /\ ret.op = "block_by_number"
  /\ ret.res = "ok"
  /\ ret.io # <<>>
  /\ Keys(block_by_number) # {}
  /\ CacheGet(block_by_number, ret.arg) = None

\* ---- C25
\* The cache mutexes a clone holds.
HeldBy(t) == {c \in Mutexes : mutex[c] = t}
\* The clone is inside Mutex::lock, waiting for another clone.
WaitsForMutex(t) ==
  /\ task[t].ph = "lock"
  /\ mutex[LockChain(task[t].op)[task[t].i]] # 0
\* C25: a clone suspended on a hint write or a preimage get holds no cache
\* mutex; no clone holds two cache mutexes; a clone that holds one is inside
\* the lookup or insert statement of that cache; and the holder of a mutex
\* never waits for a mutex itself, so no clones wait for each other.
C25_MutexHeldForOneMapOperation ==
  /\ \A t \in Clones :
       /\ task[t].ph \in SuspensionPoints => HeldBy(t) = {}
       /\ Cardinality(HeldBy(t)) <= 1
       /\ HeldBy(t) # {}
            => /\ task[t].ph = "held"
               /\ HeldBy(t) = {LockChain(task[t].op)[task[t].i]}
       /\ WaitsForMutex(t)
            => ~WaitsForMutex(mutex[LockChain(task[t].op)[task[t].i]])
  /\ \E t \in Clones : ~WaitsForMutex(t)
\* One clone is suspended on the get of the output preimage after its lookup
\* missed, while the other holds the header mutex inside update_cache.
C25_Witness ==
  \E t, u \in Clones :
    /\ task[t].ph = "await_preimage_get"
    /\ task[u].op = "update_cache"
    /\ mutex["header_by_number"] = u

\* ---- C27
\* The channels a run created.
ChannelsOf(r) == {run[r].hint, run[r].preimage} \ {0}
\* The runs whose frames are in flight on a channel.
FramesOn(ch) ==
  {pipes[ch].toHost[i].from : i \in 1..Len(pipes[ch].toHost)}
    \cup {pipes[ch].toClient[i].from : i \in 1..Len(pipes[ch].toClient)}
\* C27: the channels of two runs are distinct, and so are the two channels of
\* one run; the server task of a run holds the host ends of that run's
\* channels and its replay client the client ends; every frame on a channel of
\* a run, every frame its server task or its replay client has read, and every
\* row its provider has cached comes from the same run.
C27_RunsIsolated ==
  /\ \A r, s \in Runs : r # s => ChannelsOf(r) \cap ChannelsOf(s) = {}
  /\ \A r \in Runs :
       /\ run[r].preimage # 0 => run[r].hint # run[r].preimage
       /\ run[r].serving
            => run[r].server = [hint |-> run[r].hint, preimage |-> run[r].preimage]
       /\ run[r].pc = "client"
            => run[r].client = [hint |-> run[r].hint, preimage |-> run[r].preimage]
       /\ \A ch \in ChannelsOf(r) : FramesOn(ch) \subseteq {r}
       /\ run[r].seen \subseteq {r}
       /\ \A row \in run[r].rows : row.of = r
\* Two runs are in their replay clients at the same time, each having cached
\* a row and with a frame in flight.
C27_Witness ==
  \A r \in Runs :
    /\ run[r].pc = "client"
    /\ run[r].rows # {}
    /\ run[r].seen = {r}
    /\ \E ch \in ChannelsOf(r) : FramesOn(ch) # {}
====
